---- MODULE Spec2Model ----
(***************************************************************************)
(* Model of Example_Code/morse_tutor.py: the keying capture                *)
(* (wait_for_press_edge, wait_for_release_edge, record_keying), the        *)
(* scorer (compare_attempt) and the Tk GUI that starts one capture thread  *)
(* per typed letter (gui_mode: on_key, do_practice, poll_results).         *)
(*                                                                         *)
(* Time is counted in sampling periods (POLL_DT = 1).  One pass of a wait  *)
(* loop costs exactly one time.sleep(POLL_DT); the code between two sleeps *)
(* takes no time.  The timing constants are scaled down so that the state  *)
(* space stays finite and small; their order is the order of the source:   *)
(*   POLL_DT <= MIN_PRESS < UNIT < DOT_DASH_CUTOFF < END_IDLE_UNITS*UNIT   *)
(*           < START_KEY_TIMEOUT < RELEASE_TIMEOUT.                        *)
(* Each thread reads its own clock (th[w].now), which starts at 0 when the  *)
(* thread starts and is set back to 0 at each detected press edge.         *)
(* The key is an environment input: it may change between any two steps of *)
(* the program, also between two reads that happen in the same period.     *)
(***************************************************************************)
EXTENDS Integers, Sequences, FiniteSets, TLC

\* ---------------------------------------------------------------- CONFIG
POLL_DT == 1
UNIT == 2
MIN_PRESS == 1
START_KEY_TIMEOUT == 8
END_IDLE_UNITS == 3
RELEASE_TIMEOUT == 10
DOT_DASH_CUTOFF == (5 * UNIT) \div 2
SIDETONE_ENABLED == TRUE

\* ---------------------------------------------------------------- bounds
\* press edges the key makes during one capture
MaxPresses == 2
\* thread slots (threading.Thread objects alive at once)
MaxThreads == 2

Threads == 1..MaxThreads

\* The part of the MORSE table the typed letters of the model use.
MORSE ==
  [ch \in {"T", "I", "N"} |->
     CASE ch = "T" -> <<"-">>
       [] ch = "I" -> <<".", ".">>
       [] ch = "N" -> <<"-", ".">>]

\* Tk key events: keysym, the Control bit of event.state, and event.char.
Events ==
  { [keysym |-> "Escape", state |-> 0, char |-> ""],
    [keysym |-> "F1",     state |-> 0, char |-> ""],
    [keysym |-> "p",      state |-> 4, char |-> ""],
    [keysym |-> "space",  state |-> 0, char |-> " "],
    [keysym |-> "Shift_L", state |-> 0, char |-> ""],
    [keysym |-> "t",      state |-> 0, char |-> "t"],
    [keysym |-> "i",      state |-> 0, char |-> "i"],
    [keysym |-> "N",      state |-> 1, char |-> "N"],
    [keysym |-> "x",      state |-> 0, char |-> "x"] }

\* str.upper() on the characters of Events
upper(c) ==
  CASE c = "t" -> "T"
    [] c = "i" -> "I"
    [] c = "x" -> "X"
    [] OTHER -> c

\* ------------------------------------------------------- display helpers
RECURSIVE MapSeq(_, _)
MapSeq(s, f) ==
  IF s = <<>> THEN <<>> ELSE <<f[Head(s)]>> \o MapSeq(Tail(s), f)

morse_pretty(code) ==
  MapSeq(code, [s \in {".", "-"} |-> IF s = "." THEN "dot-glyph" ELSE "dash-glyph"])

morse_words(code) ==
  MapSeq(code, [s \in {".", "-"} |-> IF s = "." THEN "DOT" ELSE "DASH"])

\* units_str that prints the seconds, not divided by UNIT
units_str_seconds(d) == <<d, 0, "u">>

\* f"{seconds/UNIT:.1f}u": whole units and tenths of a unit, rounded half-even
units_str(d) ==
  LET scaled == 10 * d
      fl == scaled \div UNIT
      r2 == 2 * (scaled % UNIT)
      tenths == IF r2 > UNIT \/ (r2 = UNIT /\ fl % 2 = 1) THEN fl + 1 ELSE fl
  IN  <<tenths \div 10, tenths % 10, "u">>

RECURSIVE dur_info(_)
dur_info(durations) ==
  IF durations = <<>> THEN <<>>
  ELSE <<units_str(Head(durations))>> \o dur_info(Tail(durations))

Min(a, b) == IF a < b THEN a ELSE b

\* first_mismatch whose loop leaves out index 0 (range(1, n))
RECURSIVE first_mismatch_from_1(_, _, _, _)
first_mismatch_from_1(expected, got, i, n) ==
  IF i + 1 >= n THEN -1
  ELSE IF expected[i + 2] # got[i + 2] THEN i + 1
  ELSE first_mismatch_from_1(expected, got, i + 1, n)

\* the first 0-based index below n where expected and got differ, or -1 (None)
RECURSIVE first_mismatch(_, _, _, _)
first_mismatch(expected, got, i, n) ==
  IF i >= n THEN -1
  ELSE IF expected[i + 1] # got[i + 1] THEN i
  ELSE first_mismatch(expected, got, i + 1, n)

\* compare_attempt that passes only if there is one duration per symbol
compare_attempt_counts_durations(expected, got, durations) ==
  IF got = <<>>
  THEN <<FALSE, << <<"Expected", expected>>,
                   <<"Pretty", morse_pretty(expected)>>,
                   <<"Words", morse_words(expected)>>,
                   <<"No keying detected", <<>> >> >> >>
  ELSE
    LET lines == << <<"Expected", expected>>,
                    <<"Pretty", morse_pretty(expected)>>,
                    <<"Words", morse_words(expected)>>,
                    <<"Got", got>>,
                    <<"GotPretty", morse_pretty(got)>>,
                    <<"GotWords", morse_words(got)>>,
                    <<"Presses", dur_info(durations)>> >>
        mismatch == first_mismatch(expected, got, 0, Min(Len(expected), Len(got)))
    IN  IF got = expected /\ Len(durations) = Len(got)
        THEN <<TRUE, Append(lines, <<"Correct", <<>> >>)>>
        ELSE IF mismatch # -1
        THEN <<FALSE, Append(lines, <<"Mismatch at symbol",
                 <<mismatch + 1, expected[mismatch + 1], got[mismatch + 1]>> >>)>>
        ELSE <<FALSE, Append(lines, <<"Length mismatch",
                 <<Len(expected), Len(got)>> >>)>>

\* compare_attempt: <<ok, report>>; the report is the sequence of its lines,
\* each line a pair <<label, value>>.
compare_attempt(expected, got, durations) ==
  IF got = <<>>
  THEN <<FALSE, << <<"Expected", expected>>,
                   <<"Pretty", morse_pretty(expected)>>,
                   <<"Words", morse_words(expected)>>,
                   <<"No keying detected", <<>> >> >> >>
  ELSE
    LET lines == << <<"Expected", expected>>,
                    <<"Pretty", morse_pretty(expected)>>,
                    <<"Words", morse_words(expected)>>,
                    <<"Got", got>>,
                    <<"GotPretty", morse_pretty(got)>>,
                    <<"GotWords", morse_words(got)>>,
                    <<"Presses", dur_info(durations)>> >>
        mismatch == first_mismatch(expected, got, 0, Min(Len(expected), Len(got)))
    IN  IF got = expected
        THEN <<TRUE, Append(lines, <<"Correct", <<>> >>)>>
        ELSE IF mismatch # -1
        THEN <<FALSE, Append(lines, <<"Mismatch at symbol",
                 <<mismatch + 1, expected[mismatch + 1], got[mismatch + 1]>> >>)>>
        ELSE <<FALSE, Append(lines, <<"Length mismatch",
                 <<Len(expected), Len(got)>> >>)>>

\* ------------------------------------------------------------------ state
VARIABLES
  key,            \* keyer.is_pressed: the key is down
  presses,        \* press edges the key has made since the last capture began
  when_pressed,   \* keyer.when_pressed
  when_released,  \* keyer.when_released
  buzzer,         \* the buzzer is on
  practice_mode,  \* practice_mode["on"]
  busy,           \* busy["flag"]
  q,              \* the result queue
  status,         \* status_var
  ui,             \* the Tk main thread: where it is, and its locals
  th              \* the do_practice threads: where each is, and its locals

vars == <<key, presses, when_pressed, when_released, buzzer, practice_mode,
          busy, q, status, ui, th>>

\* a callback slot holds None or one of the closures enable_sidetone made;
\* id tells two closures of different calls apart
None == [fn |-> "None", id |-> 0]
FreshId(cb) == IF cb.id = 1 THEN 2 ELSE 1

UiIdle == [pc |-> "idle", code |-> <<>>, i |-> 0, ok |-> FALSE]

\* a thread slot with no thread in it.  Besides the locals of do_practice and
\* record_keying a slot records what the capture has seen of the key:
\*   measured  the durations of all measured presses, kept or not
\*   atPress   <<captured, durations>> when the last press edge was detected
\*   last      the sample of the key read last
\*   quiet     the key has stayed up since the last detected release
\*   releases  the releases of the key since the last detected press edge
NoThread ==
  [pc |-> "none", expected |-> <<>>, prev_pressed |-> None,
   prev_released |-> None, now |-> 0, t0 |-> 0, timeout |-> 0,
   phase |-> "first", prev |-> FALSE, t_press |-> 0, t_release |-> 0,
   captured |-> <<>>, durations |-> <<>>, exit |-> "none",
   measured |-> <<>>, atPress |-> <<>>,
   last |-> FALSE, quiet |-> FALSE, releases |-> 0]

\* record_keying is on the stack of thread slot t
InCapture(t) ==
  t.pc \in {"es1", "es2", "es3", "wp_init", "wp_sample", "wp_sleep",
            "wr_init", "wr_sample", "wr_sleep", "fin", "rk2", "rk3"}

\* the try block of record_keying
InTry(t) ==
  t.pc \in {"wp_init", "wp_sample", "wp_sleep", "wr_init", "wr_sample", "wr_sleep"}

Alive(t) == t.pc # "none"

Init ==
  /\ key \in BOOLEAN
  /\ presses = 0
  /\ when_pressed = None
  /\ when_released = None
  /\ buzzer = FALSE
  /\ practice_mode = TRUE
  /\ busy = FALSE
  /\ q = <<>>
  /\ status = "Ready"
  /\ ui = UiIdle
  /\ th = [w \in Threads |-> NoThread]

Capturing == \E w \in Threads : InCapture(th[w])

\* ------------------------------------------------------------- the key
\* The key goes down; gpiozero runs keyer.when_pressed.
KeyPress ==
  /\ ui.pc # "exited"
  /\ ~key
  /\ Capturing => presses < MaxPresses
  /\ key' = TRUE
  /\ presses' = IF Capturing THEN presses + 1 ELSE presses
  /\ buzzer' = IF when_pressed.fn = "_on" THEN TRUE ELSE buzzer
  /\ th' = [w \in Threads |-> [th[w] EXCEPT !.quiet = FALSE]]
  /\ UNCHANGED <<when_pressed, when_released, practice_mode, busy, q, status, ui>>

\* The key goes up; gpiozero runs keyer.when_released.
KeyRelease ==
  /\ ui.pc # "exited"
  /\ key
  /\ key' = FALSE
  /\ buzzer' = IF when_released.fn = "_off" THEN FALSE ELSE buzzer
  /\ th' = [w \in Threads |->
              IF th[w].pc \in {"wr_init", "wr_sample", "wr_sleep"}
              THEN [th[w] EXCEPT !.releases = th[w].releases + 1]
              ELSE th[w]]
  /\ UNCHANGED <<presses, when_pressed, when_released, practice_mode, busy, q,
                 status, ui>>

\* ------------------------------------------------------ the capture thread
\* a loop that never updates prev (line 123 / 137 left out)
NextPrevKept(prev, cur) == prev

\* prev = cur, lines 123 and 137
NextPrev(prev, cur) == cur

\* while time.monotonic() - t0 < timeout_s
LoopContinues(now, t0, timeout_s) == now - t0 < timeout_s

\* classify with the boundary on the wrong side (<= for <)
classify_le(dur) == IF dur <= DOT_DASH_CUTOFF THEN "." ELSE "-"

\* sym = "." if dur < DOT_DASH_CUTOFF else "-"
classify(dur) == IF dur < DOT_DASH_CUTOFF THEN "." ELSE "-"

\* AppendPress without the MIN_PRESS filter of line 170
AppendPressUnfiltered(captured, durations, dur) ==
  <<Append(captured, IF dur < DOT_DASH_CUTOFF THEN "." ELSE "-"),
    Append(durations, dur)>>

\* lines 169-177: what one measured press does to <<captured, durations>>
AppendPress(captured, durations, dur) ==
  IF dur < MIN_PRESS
  THEN <<captured, durations>>
  ELSE <<Append(captured, classify(dur)), Append(durations, dur)>>

\* BreakNoRelease that classifies the press still held when the wait gave up
BreakNoReleasePartial(captured, durations, t_press, now) ==
  <<Append(captured, IF now - t_press < DOT_DASH_CUTOFF THEN "." ELSE "-"),
    Append(durations, now - t_press)>>

\* lines 166-167: no release edge: break, with the lists as they are
BreakNoRelease(captured, durations, t_press, now) == <<captured, durations>>

\* end_gap_s with the unit forgotten
end_gap_s_units == END_IDLE_UNITS

\* line 184: end_gap_s = END_IDLE_UNITS * UNIT
end_gap_s == END_IDLE_UNITS * UNIT

\* StartThread whose first wait is given the release timeout
StartThreadReleaseTimeout(code) ==
  [NoThread EXCEPT !.pc = IF SIDETONE_ENABLED THEN "es1" ELSE "wp_init",
                   !.expected = code,
                   !.timeout = RELEASE_TIMEOUT]

\* the thread do_practice(code) as threading.Thread.start() leaves it
StartThread(code) ==
  [NoThread EXCEPT !.pc = IF SIDETONE_ENABLED THEN "es1" ELSE "wp_init",
                   !.expected = code,
                   !.timeout = START_KEY_TIMEOUT]

\* enable_sidetone, lines 91-100
enable_sidetone_pressed(w) ==
  /\ th[w].pc = "es1"
  /\ when_pressed' = [fn |-> "_on", id |-> FreshId(when_pressed)]
  /\ th' = [th EXCEPT ![w].prev_pressed = when_pressed,
                      ![w].prev_released = when_released,
                      ![w].pc = "es2"]
  /\ UNCHANGED <<key, presses, when_released, buzzer, practice_mode, busy, q,
                 status, ui>>

\* enable_sidetone, line 101
enable_sidetone_released(w) ==
  /\ th[w].pc = "es2"
  /\ when_released' = [fn |-> "_off", id |-> when_pressed.id]
  /\ th' = [th EXCEPT ![w].pc = "es3"]
  /\ UNCHANGED <<key, presses, when_pressed, buzzer, practice_mode, busy, q,
                 status, ui>>

\* enable_sidetone, lines 102-103, and the entry of the try block
enable_sidetone_off(w) ==
  /\ th[w].pc = "es3"
  /\ buzzer' = FALSE
  /\ th' = [th EXCEPT ![w].pc = "wp_init"]
  /\ UNCHANGED <<key, presses, when_pressed, when_released, practice_mode, busy,
                 q, status, ui>>

\* wait_for_press_edge returns None: line 158 (return "", []) after the first
\* wait, line 187 (break) after a later one
PressTimedOut(t) ==
  IF t.phase = "first"
  THEN [t EXCEPT !.pc = "fin", !.exit = "no_press",
                 !.captured = <<>>, !.durations = <<>>]
  ELSE [t EXCEPT !.pc = "fin", !.exit = "idle_gap"]

\* wait_for_release_edge returns None: lines 166-167
ReleaseTimedOut(t) ==
  LET r == BreakNoRelease(t.captured, t.durations, t.t_press, t.now)
  IN  [t EXCEPT !.pc = "fin", !.exit = "release_timeout",
                !.captured = r[1], !.durations = r[2]]

\* wait_for_press_edge, lines 117-119
wait_for_press_edge_enter(w) ==
  /\ th[w].pc = "wp_init"
  /\ th' = [th EXCEPT ![w] =
       LET t == [th[w] EXCEPT !.t0 = th[w].now, !.prev = key, !.last = key]
       IN  IF LoopContinues(t.now, t.t0, t.timeout)
           THEN [t EXCEPT !.pc = "wp_sample"]
           ELSE PressTimedOut(t)]
  /\ UNCHANGED <<key, presses, when_pressed, when_released, buzzer,
                 practice_mode, busy, q, status, ui>>

\* wait_for_press_edge, lines 120-123; on an edge, lines 156-161 or 188:
\* t_press = time.monotonic().  The code uses its timestamps only in
\* differences and the origin of the monotonic clock is arbitrary: the thread's
\* clock is set back to 0 at each press edge, where t_press is the only
\* timestamp that is read again (t0 is set anew by the next wait, t_release by
\* the next release edge).
wait_for_press_edge_sample(w) ==
  /\ th[w].pc = "wp_sample"
  /\ th' = [th EXCEPT ![w] =
       IF key /\ ~th[w].prev
       THEN [th[w] EXCEPT !.now = 0,
                          !.t0 = 0,
                          !.t_release = 0,
                          !.t_press = 0,
                          !.atPress = <<th[w].captured, th[w].durations>>,
                          !.last = key,
                          !.releases = 0,
                          !.timeout = RELEASE_TIMEOUT,
                          !.pc = "wr_init"]
       ELSE [th[w] EXCEPT !.prev = NextPrev(th[w].prev, key), !.last = key,
                          !.pc = "wp_sleep"]]
  /\ UNCHANGED <<key, presses, when_pressed, when_released, buzzer,
                 practice_mode, busy, q, status, ui>>

\* wait_for_press_edge, line 124 and the loop test of line 119
wait_for_press_edge_sleep(w) ==
  /\ th[w].pc = "wp_sleep"
  /\ th' = [th EXCEPT ![w] =
       LET t == [th[w] EXCEPT !.now = th[w].now + POLL_DT]
       IN  IF LoopContinues(t.now, t.t0, t.timeout)
           THEN [t EXCEPT !.pc = "wp_sample"]
           ELSE PressTimedOut(t)]
  /\ UNCHANGED <<key, presses, when_pressed, when_released, buzzer,
                 practice_mode, busy, q, status, ui>>

\* wait_for_release_edge, lines 131-133
wait_for_release_edge_enter(w) ==
  /\ th[w].pc = "wr_init"
  /\ th' = [th EXCEPT ![w] =
       LET t == [th[w] EXCEPT !.t0 = th[w].now, !.prev = key, !.last = key]
       IN  IF LoopContinues(t.now, t.t0, t.timeout)
           THEN [t EXCEPT !.pc = "wr_sample"]
           ELSE ReleaseTimedOut(t)]
  /\ UNCHANGED <<key, presses, when_pressed, when_released, buzzer,
                 practice_mode, busy, q, status, ui>>

\* wait_for_release_edge, lines 134-137; on an edge, lines 169-184
wait_for_release_edge_sample(w) ==
  /\ th[w].pc = "wr_sample"
  /\ th' = [th EXCEPT ![w] =
       IF ~key /\ th[w].prev
       THEN LET t_release == th[w].now
                dur == t_release - th[w].t_press
                r == AppendPress(th[w].captured, th[w].durations, dur)
            IN  [th[w] EXCEPT !.t_release = t_release,
                              !.captured = r[1],
                              !.durations = r[2],
                              !.measured = Append(th[w].measured, dur),
                              !.last = key,
                              !.quiet = TRUE,
                              !.releases = 0,
                              !.phase = "next",
                              !.timeout = end_gap_s,
                              !.pc = "wp_init"]
       ELSE [th[w] EXCEPT !.prev = NextPrev(th[w].prev, key), !.last = key,
                          !.pc = "wr_sleep"]]
  /\ UNCHANGED <<key, presses, when_pressed, when_released, buzzer,
                 practice_mode, busy, q, status, ui>>

\* wait_for_release_edge, line 138 and the loop test of line 133
wait_for_release_edge_sleep(w) ==
  /\ th[w].pc = "wr_sleep"
  /\ th' = [th EXCEPT ![w] =
       LET t == [th[w] EXCEPT !.now = th[w].now + POLL_DT]
       IN  IF LoopContinues(t.now, t.t0, t.timeout)
           THEN [t EXCEPT !.pc = "wr_sample"]
           ELSE ReleaseTimedOut(t)]
  /\ UNCHANGED <<key, presses, when_pressed, when_released, buzzer,
                 practice_mode, busy, q, status, ui>>

\* An exception is raised inside the try block (a read of the key fails):
\* control goes to the finally clause and the exception goes on from there.
Fault(w) ==
  /\ InTry(th[w])
  /\ th' = [th EXCEPT ![w].pc = "fin", ![w].exit = "fault"]
  /\ UNCHANGED <<key, presses, when_pressed, when_released, buzzer,
                 practice_mode, busy, q, status, ui>>

\* record_keying is left: with its result to do_practice (line 253), or by the
\* exception, which ends the thread
Leave(t) ==
  IF t.exit = "fault" THEN NoThread ELSE [t EXCEPT !.pc = "put"]

\* line 193: the test of the finally clause
RestoreChosen(t) == SIDETONE_ENABLED /\ t.prev_pressed # None

\* record_keying_finally whose else branch (line 196) leaves the buzzer alone
record_keying_finally_no_off(w) ==
  /\ th[w].pc = "fin"
  /\ IF RestoreChosen(th[w])
     THEN /\ when_pressed' = th[w].prev_pressed
          /\ th' = [th EXCEPT ![w].pc = "rk2"]
          /\ UNCHANGED buzzer
     ELSE /\ th' = [th EXCEPT ![w] = Leave(th[w])]
          /\ UNCHANGED <<buzzer, when_pressed>>
  /\ UNCHANGED <<key, presses, when_released, practice_mode, busy, q, status, ui>>

\* the finally clause, lines 193-196: the first statement of
\* restore_key_callbacks (106), or buzzer.off() (196) and the return
record_keying_finally(w) ==
  /\ th[w].pc = "fin"
  /\ IF RestoreChosen(th[w])
     THEN /\ when_pressed' = th[w].prev_pressed
          /\ th' = [th EXCEPT ![w].pc = "rk2"]
          /\ UNCHANGED buzzer
     ELSE /\ buzzer' = FALSE
          /\ th' = [th EXCEPT ![w] = Leave(th[w])]
          /\ UNCHANGED when_pressed
  /\ UNCHANGED <<key, presses, when_released, practice_mode, busy, q, status, ui>>

\* restore_key_callbacks, line 107
restore_key_callbacks_released(w) ==
  /\ th[w].pc = "rk2"
  /\ when_released' = th[w].prev_released
  /\ th' = [th EXCEPT ![w].pc = "rk3"]
  /\ UNCHANGED <<key, presses, when_pressed, buzzer, practice_mode, busy, q,
                 status, ui>>

\* restore_key_callbacks, line 108, and the return of record_keying
restore_key_callbacks_off(w) ==
  /\ th[w].pc = "rk3"
  /\ buzzer' = FALSE
  /\ th' = [th EXCEPT ![w] = Leave(th[w])]
  /\ UNCHANGED <<key, presses, when_pressed, when_released, practice_mode, busy,
                 q, status, ui>>

\* do_practice, lines 253-254
do_practice_put(w) ==
  /\ th[w].pc = "put"
  /\ q' = Append(q, compare_attempt(th[w].expected, th[w].captured, th[w].durations))
  /\ th' = [th EXCEPT ![w] = NoThread]
  /\ UNCHANGED <<key, presses, when_pressed, when_released, buzzer,
                 practice_mode, busy, status, ui>>

\* ------------------------------------------------------------ the Tk thread
\* an on_key that does not look at the busy flag
GatedNever(b) == FALSE

\* line 257: the gate of on_key
Gated(b) == b

\* line 267: F1, or Control held (event.state & 0x4) with the key p
IsToggle(e) ==
  e.keysym = "F1" \/ ((e.state \div 4) % 2 = 1 /\ e.keysym \in {"p", "P"})

\* the lowest free thread slot
FreeSlot == CHOOSE w \in Threads :
              /\ ~Alive(th[w])
              /\ \A v \in Threads : ~Alive(th[v]) => w <= v

\* on_key past its gate, lines 260-287: up to the call of play_morse
on_key_event(e) ==
  IF e.keysym = "Escape"
  THEN /\ ui' = [ui EXCEPT !.pc = "destroyed"]
       /\ UNCHANGED <<practice_mode, busy, status>>
  ELSE IF IsToggle(e)
  THEN /\ practice_mode' = ~practice_mode
       /\ status' = IF practice_mode' THEN "Practice mode: ON"
                                      ELSE "Practice mode: OFF"
       /\ UNCHANGED <<busy, ui>>
  ELSE IF e.keysym = "space"
  THEN /\ status' = "Word gap"
       /\ ui' = [ui EXCEPT !.pc = "word_gap"]
       /\ UNCHANGED <<practice_mode, busy>>
  ELSE IF upper(e.char) = "" \/ upper(e.char) \notin DOMAIN MORSE
  THEN UNCHANGED <<practice_mode, busy, status, ui>>
  ELSE /\ busy' = TRUE
       /\ status' = "Playing"
       /\ ui' = [ui EXCEPT !.pc = "play_on", !.code = MORSE[upper(e.char)],
                           !.i = 1]
       /\ UNCHANGED practice_mode

\* on_key, lines 257-287: the gate comes before any look at the event
on_key ==
  /\ ui.pc = "idle"
  /\ IF Gated(busy)
     THEN UNCHANGED <<practice_mode, busy, status, ui>>
     ELSE \E e \in Events : on_key_event(e)
  /\ UNCHANGED <<key, presses, when_pressed, when_released, buzzer, q, th>>

\* on_key, lines 274-276: the word gap is over
on_key_word_gap ==
  /\ ui.pc = "word_gap"
  /\ status' = "Ready"
  /\ ui' = UiIdle
  /\ UNCHANGED <<key, presses, when_pressed, when_released, buzzer,
                 practice_mode, busy, q, th>>

\* play_symbol -> buzz, line 65
play_morse_on ==
  /\ ui.pc = "play_on"
  /\ buzzer' = TRUE
  /\ ui' = [ui EXCEPT !.pc = "play_off"]
  /\ UNCHANGED <<key, presses, when_pressed, when_released, practice_mode,
                 busy, q, status, th>>

\* buzz, line 67, the gap of line 74 and, after the last symbol, line 79
play_morse_off ==
  /\ ui.pc = "play_off"
  /\ buzzer' = FALSE
  /\ ui' = IF ui.i < Len(ui.code)
           THEN [ui EXCEPT !.pc = "play_on", !.i = ui.i + 1]
           ELSE [ui EXCEPT !.pc = "played"]
  /\ UNCHANGED <<key, presses, when_pressed, when_released, practice_mode,
                 busy, q, status, th>>

\* on_key, lines 290-296: start the capture thread, or drop the busy flag
on_key_after_play ==
  /\ ui.pc = "played"
  /\ IF practice_mode
     THEN /\ \E w \in Threads : ~Alive(th[w])
          /\ status' = "Key it back"
          /\ th' = [th EXCEPT ![FreeSlot] = StartThread(ui.code)]
          /\ presses' = 0
          /\ UNCHANGED busy
     ELSE /\ busy' = FALSE
          /\ status' = "Ready"
          /\ UNCHANGED <<th, presses>>
  /\ ui' = UiIdle
  /\ UNCHANGED <<key, when_pressed, when_released, buzzer, practice_mode, q>>

\* poll_results, lines 299-305: take a result if there is one
poll_results ==
  /\ ui.pc = "idle"
  /\ IF q = <<>>
     THEN UNCHANGED <<q, status, ui>>
     ELSE /\ q' = Tail(q)
          /\ status' = Head(q)[2]
          /\ ui' = [ui EXCEPT !.pc = "fb_on", !.ok = Head(q)[1],
                              !.i = IF Head(q)[1] THEN 2 ELSE 1]
  /\ UNCHANGED <<key, presses, when_pressed, when_released, buzzer,
                 practice_mode, busy, th>>

\* feedback_ok / feedback_bad -> buzz, line 65; ui.i tones are left to play
feedback_on ==
  /\ ui.pc = "fb_on"
  /\ buzzer' = TRUE
  /\ ui' = [ui EXCEPT !.pc = "fb_off"]
  /\ UNCHANGED <<key, presses, when_pressed, when_released, practice_mode,
                 busy, q, status, th>>

\* buzz, line 67
feedback_off ==
  /\ ui.pc = "fb_off"
  /\ buzzer' = FALSE
  /\ ui' = IF ui.i > 1
           THEN [ui EXCEPT !.pc = "fb_on", !.i = ui.i - 1]
           ELSE [ui EXCEPT !.pc = "fb_done", !.i = 0]
  /\ UNCHANGED <<key, presses, when_pressed, when_released, practice_mode,
                 busy, q, status, th>>

\* poll_results, lines 307-308
poll_results_done ==
  /\ ui.pc = "fb_done"
  /\ busy' = FALSE
  /\ ui' = UiIdle
  /\ UNCHANGED <<key, presses, when_pressed, when_released, buzzer,
                 practice_mode, q, status, th>>

\* root.mainloop() has returned after root.destroy(): main ends, and the
\* finally clause of line 342 switches the buzzer off
main_exit ==
  /\ ui.pc = "destroyed"
  /\ buzzer' = FALSE
  /\ ui' = [ui EXCEPT !.pc = "exited"]
  /\ UNCHANGED <<key, presses, when_pressed, when_released, practice_mode,
                 busy, q, status, th>>

\* ------------------------------------------------------------ specification
ThreadStep(w) ==
  \/ enable_sidetone_pressed(w)
  \/ enable_sidetone_released(w)
  \/ enable_sidetone_off(w)
  \/ wait_for_press_edge_enter(w)
  \/ wait_for_press_edge_sample(w)
  \/ wait_for_press_edge_sleep(w)
  \/ wait_for_release_edge_enter(w)
  \/ wait_for_release_edge_sample(w)
  \/ wait_for_release_edge_sleep(w)
  \/ record_keying_finally(w)
  \/ restore_key_callbacks_released(w)
  \/ restore_key_callbacks_off(w)
  \/ do_practice_put(w)

UiStep ==
  \/ on_key
  \/ on_key_word_gap
  \/ play_morse_on
  \/ play_morse_off
  \/ on_key_after_play
  \/ poll_results
  \/ feedback_on
  \/ feedback_off
  \/ poll_results_done
  \/ main_exit

Next ==
  \/ KeyPress
  \/ KeyRelease
  \/ UiStep
  \/ \E w \in Threads : ThreadStep(w)
  \/ \E w \in Threads : Fault(w)

Spec == Init /\ [][Next]_vars

\* --------------------------------------------- the scorer on arbitrary inputs
\* longest expected / decoded sequence and duration list given to the scorer
MaxLen == 2
\* largest duration, in sampling periods, given to the scorer
MaxDur == 3

SeqsUpTo(S, n) == UNION {[1..k -> S] : k \in 0..n}

\* do_practice has returned from record_keying and calls compare_attempt
\* (line 253) with any expected sequence, decoded sequence and duration list
ScoreInit ==
  /\ key = FALSE
  /\ presses = 0
  /\ when_pressed = None
  /\ when_released = None
  /\ buzzer = FALSE
  /\ practice_mode = TRUE
  /\ busy = TRUE
  /\ q = <<>>
  /\ status = "Key it back"
  /\ ui = UiIdle
  /\ \E expected \in SeqsUpTo({".", "-"}, MaxLen),
        got \in SeqsUpTo({".", "-"}, MaxLen),
        durations \in SeqsUpTo(0..MaxDur, MaxLen) :
       th = [w \in Threads |->
               IF w = 1
               THEN [NoThread EXCEPT !.pc = "put", !.expected = expected,
                                     !.captured = got, !.durations = durations]
               ELSE NoThread]

ScoreNext == \E w \in Threads : do_practice_put(w)

ScoreSpec == ScoreInit /\ [][ScoreNext]_vars

\* ----------------------------------------- the edge waits on arbitrary calls
\* longest timeout, in sampling periods, given to an edge wait
MaxTimeout == 3

\* the timeouts given: negative, zero and positive
WaitTimeouts == (0 - 1)..MaxTimeout

\* Thread 1 is about to call wait_for_press_edge or wait_for_release_edge
\* with any of the timeouts, the key up or down; no sidetone is installed.
WaitInit ==
  /\ key \in BOOLEAN
  /\ presses = 0
  /\ when_pressed = None
  /\ when_released = None
  /\ buzzer = FALSE
  /\ practice_mode = TRUE
  /\ busy = TRUE
  /\ q = <<>>
  /\ status = "Key it back"
  /\ ui = UiIdle
  /\ \E pc \in {"wp_init", "wr_init"}, timeout_s \in WaitTimeouts :
       th = [w \in Threads |->
               IF w = 1
               THEN [NoThread EXCEPT !.pc = pc, !.timeout = timeout_s]
               ELSE NoThread]

\* the key moves and the waits sample it
WaitNext ==
  \/ KeyPress
  \/ KeyRelease
  \/ \E w \in Threads :
       \/ wait_for_press_edge_enter(w)
       \/ wait_for_press_edge_sample(w)
       \/ wait_for_press_edge_sleep(w)
       \/ wait_for_release_edge_enter(w)
       \/ wait_for_release_edge_sample(w)
       \/ wait_for_release_edge_sleep(w)

WaitSpec == WaitInit /\ [][WaitNext]_vars

\* ------------------------------------------------------------------ claims
\* thread slot w has left record_keying in this step
Returns(w) == InCapture(th[w]) /\ ~InCapture(th'[w])

\* record_keying of slot t has reached its finally clause or has returned
Ended(t) == t.pc \in {"fin", "rk2", "rk3", "put"}

\* C1: whenever record_keying returns (or is left by a fault), when_pressed and
\* when_released hold the values they held when it was entered, None included.
CallbacksRestoredOnReturn ==
  [][\A w \in Threads :
       Returns(w) => /\ when_pressed' = th[w].prev_pressed
                     /\ when_released' = th[w].prev_released]_vars

\* C2: at most one capture thread exists at any time, and none exists while a
\* result waits in the queue: threads alive plus queued results is at most one.
AtMostOneCapture ==
  Cardinality({w \in Threads : Alive(th[w])}) + Len(q) <= 1

\* C2 witness: a later attempt's capture is running (an earlier capture has
\* completed and left its closures) and the Tk thread is free to handle keys.
SecondCaptureRunning ==
  /\ \E w \in Threads : InTry(th[w]) /\ th[w].prev_pressed # None
  /\ ui.pc = "idle"
  /\ busy

\* C3: a press or release of the key switches the buzzer only while a capture
\* is running, and never while the feedback tone is played.
SidetoneOnlyDuringCapture ==
  [][(key' # key /\ buzzer' # buzzer) =>
       (Capturing /\ ui.pc \notin {"fb_on", "fb_off"})]_vars

\* C4: no attempt is stuck before Scored: the busy flag is never up with no
\* capture thread alive, no result queued and the Tk thread back in its loop.
AttemptNeverStuck ==
  ~(/\ busy
    /\ ui.pc = "idle"
    /\ q = <<>>
    /\ \A w \in Threads : ~Alive(th[w]))

\* the durations of s that are at least MIN_PRESS, in order
RECURSIVE ValidPresses(_)
ValidPresses(s) ==
  IF s = <<>> THEN <<>>
  ELSE IF Head(s) >= MIN_PRESS THEN <<Head(s)>> \o ValidPresses(Tail(s))
  ELSE ValidPresses(Tail(s))

\* C5: during a capture and in its result, every listed duration is at least
\* MIN_PRESS, symbols and durations are equally many, and the durations are
\* exactly the measured press intervals of at least MIN_PRESS.
OnlyValidPressesListed ==
  \A w \in Threads :
    /\ Len(th[w].captured) = Len(th[w].durations)
    /\ \A i \in 1..Len(th[w].durations) : th[w].durations[i] >= MIN_PRESS
    /\ th[w].durations = ValidPresses(th[w].measured)

\* C5 witness: a returned attempt with a discarded press and a listed one.
NoiseDroppedPressKept ==
  \E w \in Threads :
    /\ th[w].pc = "put"
    /\ \E i \in 1..Len(th[w].measured) : th[w].measured[i] < MIN_PRESS
    /\ Len(th[w].durations) = 1

\* C6: in a returned attempt the i-th symbol is "." exactly when the i-th
\* duration is below DOT_DASH_CUTOFF; a duration equal to the cutoff is "-".
SymbolIffBelowCutoff ==
  \A w \in Threads :
    th[w].pc = "put" =>
      \A i \in 1..Len(th[w].captured) :
        (th[w].captured[i] = ".") <=> (th[w].durations[i] < DOT_DASH_CUTOFF)

\* C6 witness: a returned attempt holding a press of exactly the cutoff, as a
\* dash, and a shorter one, as a dot.
CutoffPressIsDash ==
  \E w \in Threads :
    /\ th[w].pc = "put"
    /\ \E i, j \in 1..Len(th[w].captured) :
         /\ th[w].durations[i] = DOT_DASH_CUTOFF /\ th[w].captured[i] = "-"
         /\ th[w].durations[j] < DOT_DASH_CUTOFF /\ th[w].captured[j] = "."

\* C7: a capture that saw no press in the first wait returns ("", []) and has
\* then run no longer than START_KEY_TIMEOUT plus one sampling period since the
\* first wait began.
NoPressReturnsEmptyInTime ==
  \A w \in Threads :
    (Ended(th[w]) /\ th[w].exit = "no_press") =>
      /\ th[w].captured = <<>>
      /\ th[w].durations = <<>>
      /\ th[w].now - th[w].t0 <= START_KEY_TIMEOUT + POLL_DT

\* C7 witness: record_keying has returned after a first wait without a press.
NoPressReturned ==
  \E w \in Threads :
    th[w].pc = "put" /\ th[w].exit = "no_press" /\ th[w].now >= START_KEY_TIMEOUT

\* C8 as stated: a capture that measured one press and one release and then
\* ended by the idle gap returns one symbol and one duration, the idle gap
\* after the release.
OnePressOneSymbol ==
  \A w \in Threads :
    (Ended(th[w]) /\ th[w].exit = "idle_gap" /\ Len(th[w].measured) = 1) =>
      /\ Len(th[w].captured) = 1
      /\ Len(th[w].durations) = 1
      /\ th[w].now - th[w].t_release >= END_IDLE_UNITS * UNIT
      /\ th[w].now - th[w].t_release <= END_IDLE_UNITS * UNIT + POLL_DT

\* C8 amended: a capture that measured one press of at least MIN_PRESS and then
\* ended by the idle gap returns exactly that one symbol and duration, and
\* returns END_IDLE_UNITS * UNIT after the release, within one sampling period.
OneValidPressOneSymbol ==
  \A w \in Threads :
    (/\ Ended(th[w])
     /\ th[w].exit = "idle_gap"
     /\ Len(th[w].measured) = 1
     /\ th[w].measured[1] >= MIN_PRESS) =>
      /\ Len(th[w].captured) = 1
      /\ th[w].durations = th[w].measured
      /\ th[w].now - th[w].t_release >= END_IDLE_UNITS * UNIT
      /\ th[w].now - th[w].t_release <= END_IDLE_UNITS * UNIT + POLL_DT

\* C8 witness: such a capture has returned.
OneValidPressReturned ==
  \E w \in Threads :
    /\ th[w].pc = "put"
    /\ th[w].exit = "idle_gap"
    /\ Len(th[w].measured) = 1
    /\ th[w].measured[1] >= MIN_PRESS
    /\ ~key

\* C9: when the wait for a release times out, the capture ends with exactly
\* the symbols and durations it held when that press was detected.
StuckKeyAddsNothing ==
  \A w \in Threads :
    (Ended(th[w]) /\ th[w].exit = "release_timeout") =>
      <<th[w].captured, th[w].durations>> = th[w].atPress

\* C9 witness: a capture that had one symbol returned after a stuck key.
StuckKeyAfterOneSymbol ==
  \E w \in Threads :
    /\ th[w].pc = "put"
    /\ th[w].exit = "release_timeout"
    /\ Len(th[w].captured) = 1
    /\ key

\* C10: in the step in which record_keying returns or is left by a fault, the
\* buzzer is switched off.
BuzzerOffOnReturn ==
  [][\A w \in Threads : Returns(w) => ~buzzer']_vars

\* C10 witness: record_keying has returned on the release timeout, the key is
\* still down and the buzzer is off.
StuckKeyBuzzerOff ==
  \E w \in Threads :
    th[w].pc = "put" /\ th[w].exit = "release_timeout" /\ key /\ ~buzzer

\* do_practice of slot w calls compare_attempt and queues its result in this step
Scores(w) == th[w].pc = "put" /\ th'[w].pc = "none" /\ q' # <<>>

\* the result queued last
Newest(queue) == queue[Len(queue)]

\* the value of the report's line with this label, and whether there is one
HasLine(report, label) == \E i \in 1..Len(report) : report[i][1] = label
Line(report, label) ==
  report[CHOOSE i \in 1..Len(report) : report[i][1] = label][2]

\* C11 as stated: a decoded sequence equal to the expected one passes,
\* whatever the duration list holds.
EqualPasses ==
  [][\A w \in Threads :
       (Scores(w) /\ th[w].captured = th[w].expected) => Newest(q')[1] = TRUE]_vars

\* C11 amended: a non-empty decoded sequence equal to the expected one passes,
\* whatever the duration list holds; an empty one fails.
NonEmptyEqualPasses ==
  [][\A w \in Threads :
       (Scores(w) /\ th[w].captured = th[w].expected) =>
          (Newest(q')[1] = (th[w].captured # <<>>))]_vars

\* C11 witness: a pass was reported for a two-symbol attempt whose duration
\* list does not even have the length of the decoded sequence.
PassedWithOddDurations ==
  /\ q # <<>>
  /\ q[1][1] = TRUE
  /\ Len(Line(q[1][2], "Got")) = 2
  /\ Len(Line(q[1][2], "Presses")) # 2

\* the indexes, within the shorter length, where two sequences differ
Differ(a, b) == {i \in 1..Min(Len(a), Len(b)) : a[i] # b[i]}

\* C12: a non-empty decoded sequence that differs from the expected one fails;
\* the report names the smallest 1-based index where the symbols differ, with
\* both symbols, and names the two lengths only if no index differs.
MismatchReported ==
  [][\A w \in Threads :
       (Scores(w) /\ th[w].captured # <<>> /\ th[w].captured # th[w].expected) =>
         LET e == th[w].expected
             g == th[w].captured
             rep == Newest(q')[2]
         IN  /\ Newest(q')[1] = FALSE
             /\ IF Differ(e, g) # {}
                THEN LET m == CHOOSE i \in Differ(e, g) :
                                \A j \in Differ(e, g) : i <= j
                     IN  /\ HasLine(rep, "Mismatch at symbol")
                         /\ Line(rep, "Mismatch at symbol") = <<m, e[m], g[m]>>
                         /\ ~HasLine(rep, "Length mismatch")
                ELSE /\ HasLine(rep, "Length mismatch")
                     /\ Line(rep, "Length mismatch") = <<Len(e), Len(g)>>
                     /\ ~HasLine(rep, "Mismatch at symbol")]_vars

\* C12 witness: a positional mismatch was reported for sequences that also
\* differ in length.
MismatchBeforeLength ==
  /\ q # <<>>
  /\ HasLine(q[1][2], "Mismatch at symbol")
  /\ Len(Line(q[1][2], "Expected")) # Len(Line(q[1][2], "Got"))

\* the printed list p gives the durations d in units, to one decimal
InUnits(p, d) ==
  /\ Len(p) = Len(d)
  /\ \A i \in 1..Len(p) :
       LET tenths == 10 * p[i][1] + p[i][2]
           err == UNIT * tenths - 10 * d[i]
       IN  /\ p[i][3] = "u"
           /\ p[i][2] \in 0..9
           /\ 2 * err <= UNIT
           /\ -2 * err <= UNIT

\* C13 as stated: every report, that of an empty decoded sequence too, holds
\* the expected sequence, the decoded sequence and the durations in units.
ReportAlwaysComplete ==
  [][\A w \in Threads :
       Scores(w) =>
         LET rep == Newest(q')[2]
         IN  /\ HasLine(rep, "Expected")
             /\ Line(rep, "Expected") = th[w].expected
             /\ HasLine(rep, "Got")
             /\ Line(rep, "Got") = th[w].captured
             /\ HasLine(rep, "Presses")
             /\ InUnits(Line(rep, "Presses"), th[w].durations)]_vars

\* C13 amended: every report holds the expected sequence; the report of a
\* non-empty decoded sequence, pass or fail, also holds the decoded sequence
\* and the durations in units; the report of an empty one holds neither.
ReportCompleteIfKeyed ==
  [][\A w \in Threads :
       Scores(w) =>
         LET rep == Newest(q')[2]
         IN  /\ HasLine(rep, "Expected")
             /\ Line(rep, "Expected") = th[w].expected
             /\ IF th[w].captured # <<>>
                THEN /\ HasLine(rep, "Got")
                     /\ Line(rep, "Got") = th[w].captured
                     /\ HasLine(rep, "Presses")
                     /\ InUnits(Line(rep, "Presses"), th[w].durations)
                ELSE ~HasLine(rep, "Got") /\ ~HasLine(rep, "Presses")]_vars

\* C13 witness: a failing report that lists a press of one and a half units.
FailReportWithUnits ==
  /\ q # <<>>
  /\ q[1][1] = FALSE
  /\ HasLine(q[1][2], "Presses")
  /\ \E i \in 1..Len(Line(q[1][2], "Presses")) :
       Line(q[1][2], "Presses")[i] = <<1, 5, "u">>

\* C14: a capture without a measured press of at least MIN_PRESS returns
\* ("", []), and its score is a fail whose report notes that no keying was
\* detected and holds the expected sequence.
NoValidPressNoKeying ==
  [][\A w \in Threads :
       (Scores(w) /\ ValidPresses(th[w].measured) = <<>>) =>
         /\ th[w].captured = <<>>
         /\ th[w].durations = <<>>
         /\ Newest(q')[1] = FALSE
         /\ HasLine(Newest(q')[2], "No keying detected")
         /\ HasLine(Newest(q')[2], "Expected")
         /\ Line(Newest(q')[2], "Expected") = th[w].expected]_vars

\* C14 witness: the key was pressed during the capture, which ended with the
\* key up, and the report queued says that no keying was detected.
NoKeyingAfterNoise ==
  /\ q # <<>>
  /\ HasLine(q[1][2], "No keying detected")
  /\ presses >= 1
  /\ ~key

\* the capture threads alive
Living == {w \in Threads : Alive(th[w])}

\* a practice attempt is under way and its feedback tone has not begun
TonePending == busy /\ ui.pc = "idle"

\* the feedback tone is being played, or has just been
InFeedback == ui.pc \in {"fb_on", "fb_off", "fb_done"}

\* C15: in a practice attempt the capture thread starts only when play_morse
\* is over, a result is queued only by a thread whose record_keying has
\* returned, the feedback tone is played only when that thread has ended and
\* its result has left the queue, every started capture has exactly one tone
\* to come until it is played, and busy is cleared only after the tone (or,
\* with practice off, after playback).
PracticeAttemptSequential ==
  [][/\ \A w \in Threads :
          (~Alive(th[w]) /\ Alive(th'[w])) => ui.pc = "played"
     /\ Len(q') > Len(q) =>
          \E w \in Threads :
            th[w].pc = "put" /\ th[w].exit \in {"no_press", "idle_gap", "release_timeout"}
     /\ InFeedback' => (q' = <<>> /\ Living' = {})
     /\ TonePending' => Cardinality(Living') + Len(q') = 1
     /\ (busy /\ ~busy') =>
          (ui.pc = "fb_done" \/ (ui.pc = "played" /\ ~practice_mode))]_vars

\* record_keying of thread w ends by the idle-gap rule in this step
EndsByIdleGap(w) == th[w].exit # "idle_gap" /\ th'[w].exit = "idle_gap"

\* C16: when the wait for the next press times out and the attempt is declared
\* complete, the key is up and has stayed up since the last detected release,
\* for at least END_IDLE_UNITS * UNIT.
IdleGapOnlyAfterSilence ==
  [][\A w \in Threads :
       EndsByIdleGap(w) =>
         /\ ~key
         /\ th[w].quiet
         /\ th'[w].now - th'[w].t_release >= END_IDLE_UNITS * UNIT]_vars

\* C17: every duration that record_keying classifies runs from a detected
\* press edge to the first release of the key after that edge: the key was
\* released once, not more, between the press edge and the release edge.
DurationIsOneContiguousPress ==
  [][\A w \in Threads :
       Len(th'[w].durations) > Len(th[w].durations) =>
         th[w].releases = 1]_vars

\* thread slot w takes a step of an edge wait
WaitStep(w) == InTry(th[w]) /\ th'[w].pc # th[w].pc

\* C18: a sample of wait_for_press_edge returns (the release wait is entered)
\* exactly when the sample before it read "up" and this one reads "down", and
\* the timestamp returned is the time of this sample; symmetrically for
\* wait_for_release_edge.  The key is sampled only while the timeout counted
\* from call entry has not elapsed, None is returned only when it has, and at
\* once when the timeout is <= 0.  A step of a wait changes nothing but the
\* locals of the call.
EdgeWaitReturnsFirstEdge ==
  [][\A w \in Threads :
       WaitStep(w) =>
         /\ th[w].pc = "wp_sample" =>
              /\ th'[w].pc = "wr_init" <=> (~th[w].last /\ key)
              /\ th'[w].pc = "wr_init" => th'[w].t_press = th'[w].now
              /\ th'[w].pc # "fin"
         /\ th[w].pc = "wr_sample" =>
              /\ th'[w].pc = "wp_init" <=> (th[w].last /\ ~key)
              /\ th'[w].pc = "wp_init" => th'[w].t_release = th[w].now
              /\ th'[w].pc # "fin"
         /\ th'[w].pc \in {"wp_sample", "wr_sample"} =>
              th'[w].now - th'[w].t0 < th'[w].timeout
         /\ th'[w].pc = "fin" =>
              /\ th'[w].now - th'[w].t0 >= th'[w].timeout
              /\ th'[w].exit \in {"no_press", "idle_gap", "release_timeout"}
         /\ (th[w].pc \in {"wp_init", "wr_init"} /\ th[w].timeout <= 0) =>
              th'[w].pc = "fin"
         /\ th[w].pc \in {"wp_init", "wr_init"} => th'[w].last = key
         /\ UNCHANGED <<key, presses, when_pressed, when_released, buzzer,
                        practice_mode, busy, q, status, ui>>]_vars

\* C18 witness: wait_for_press_edge was entered with a positive timeout and
\* the key down; the key stayed down and the call has returned None.
HeldKeyIsNoEdge ==
  /\ th[1].pc = "fin"
  /\ th[1].exit = "no_press"
  /\ th[1].timeout > 0
  /\ th[1].now >= th[1].timeout
  /\ th[1].last
  /\ key
  /\ presses = 0

\* C19: the result queue never holds more than one item; busy is up whenever
\* a capture thread is alive or a result is queued; and while busy is up no
\* step does what on_key does for a key event: practice mode is not toggled,
\* the window is not destroyed, no word gap and no playback begins, and no
\* capture thread is started from the idle Tk thread.
SingleSlotQueueAndBusyGate ==
  [][/\ Len(q) <= 1
     /\ Len(q') <= 1
     /\ (Living # {} \/ q # <<>>) => busy
     /\ (Living' # {} \/ q' # <<>>) => busy'
     /\ busy =>
          /\ practice_mode' = practice_mode
          /\ ui'.pc \notin {"destroyed", "exited", "word_gap"}
          /\ ui.pc = "idle" =>
               /\ ui'.pc \in {"idle", "fb_on"}
               /\ \A w \in Threads : Alive(th'[w]) => Alive(th[w])]_vars

\* C19 witness: a result is queued and not yet taken by poll_results, busy is
\* up and the Tk thread is idle, free to handle a key event.
ResultQueuedTkIdle ==
  /\ q # <<>>
  /\ busy
  /\ ui.pc = "idle"
  /\ Living = {}
====
